---- MODULE Spec2Model ----
(***************************************************************************)
(* Model of the adaptive hybrid quantum hash string search                 *)
(* (src/adaptive_hash): the hash function, the classical preprocessor,     *)
(* the circuit builders (as gate lists, executed on an exact state         *)
(* vector) and the search orchestrator.                                    *)
(*                                                                         *)
(* Python values are modelled as follows.  A str is a sequence of code     *)
(* points; a bit-string ('0'/'1' characters) is a sequence over {0, 1},    *)
(* first character first.  A call that can raise returns a record with an  *)
(* exc field ("none" when it returns normally).                            *)
(***************************************************************************)
EXTENDS Integers, Sequences, FiniteSets, TLC

VARIABLES
    \* ---- hashing calls (hashing.py)
    h_substring, h_target, h_hash_bits, h_prime_index, h_results,
    \* ---- one call of classical_preprocessing (preprocessing.py)
    input_text, search_values, hash_bits, prime_index, pre_pc, pre_out,
    \* ---- a circuit under construction and its exact state (circuits.py):
    \* the register sizes, the arguments of the builders, the builder calls
    \* still to make and those made, the gates appended so far (one list per
    \* call), the state before the sequence under study and the state after
    \* the gates appended so far
    c_idx, c_val, c_array, c_targets, c_valid_states, c_todo, c_done, qc, q_before, q,
    \* ---- one invocation of run_full_search (adaptive_search.py), which
    \* takes its text, targets and hash parameters from the variables of
    \* classical_preprocessing above: the stage about to run, the stages run
    \* so far, the exception that ended the invocation, and the locals of
    \* the function
    p_count, shots, run_pc, run_stages, run_exc,
    counts_count, estimate, optimal_iterations, qc_search, counts_search,
    validation, results,
    \* ---- one sweep of AHQuHSSA.run_tests (setup.py): the parameter lists,
    \* the position in the nested loops, and the locals of the method
    sw_target_n_qubits, sw_num_correct_list, sw_repeats,
    sw_pc, sw_i, sw_j, sw_rep, sw_results, sw_accum, sw_rows

hvars == <<h_substring, h_target, h_hash_bits, h_prime_index, h_results>>
pvars == <<input_text, search_values, hash_bits, prime_index, pre_pc, pre_out>>
cvars == <<c_idx, c_val, c_array, c_targets, c_valid_states, c_todo, c_done, qc, q_before, q>>
rvars == <<p_count, shots, run_pc, run_stages, run_exc,
           counts_count, estimate, optimal_iterations, qc_search, counts_search,
           validation, results>>
svars == <<sw_target_n_qubits, sw_num_correct_list, sw_repeats,
           sw_pc, sw_i, sw_j, sw_rep, sw_results, sw_accum, sw_rows>>
vars == <<hvars, pvars, cvars, rvars, svars>>

(***************************************************************************)
(* Bounds of the model.                                                    *)
(***************************************************************************)
MaxStrLen == 2        \* longest substring handed to make_hash
MaxHashBits == 9      \* widest digest
MaxCalls == 2         \* repeated make_hash calls on the same arguments
MaxTextLen == 9       \* longest input text of classical_preprocessing
MaxTargets == 2       \* most search values
MaxIdxQubits == 2     \* widest index register of the loader circuits
MaxValQubits == 2     \* widest value register
MaxArrayLen == 3      \* longest array handed to load_array
MaxMarkTargets == 2   \* most target digests handed to mark_if_value_is_target
MaxOracleQubits == 2  \* widest index register of create_hashed_oracle
MaxOracleStates == 2  \* longest valid_states list handed to create_hashed_oracle
MaxShots == 2         \* most shots a backend returns for one circuit
MaxPrimeIndex == 18   \* largest magnitude of an index handed to get_prime
MaxSweepQubits == 2   \* largest entry of target_n_qubits
MaxNumCorrect == 3    \* largest entry of num_correct_list
MaxRepeats == 2       \* most repeats of a sweep cell
MaxSweepList == 2     \* longest target_n_qubits and num_correct_list

(***************************************************************************)
(* Python built-ins.                                                       *)
(***************************************************************************)
\* bin digits of a non-negative int, most significant first (at least one).
RECURSIVE BinDigits(_)
BinDigits(i) == IF i < 2 THEN <<i>> ELSE Append(BinDigits(i \div 2), i % 2)

\* format(i, f'0{width}b'): zero padding up to width, never truncation.
FormatBin(i, width) ==
    LET d == BinDigits(i)
    IN  IF Len(d) >= width THEN d ELSE [k \in 1..(width - Len(d)) |-> 0] \o d

\* int(bs, 2) of a non-empty bit-string.
RECURSIVE IntOfBits(_)
IntOfBits(bs) ==
    IF Len(bs) = 0 THEN 0
    ELSE 2 * IntOfBits(SubSeq(bs, 1, Len(bs) - 1)) + bs[Len(bs)]

\* str.encode('utf-8') of one code point (1 to 3 bytes; no surrogates used).
Utf8Char(cp) ==
    IF cp < 128 THEN <<cp>>
    ELSE IF cp < 2048 THEN <<192 + (cp \div 64), 128 + (cp % 64)>>
    ELSE <<224 + (cp \div 4096), 128 + ((cp \div 64) % 64), 128 + (cp % 64)>>

RECURSIVE Utf8Encode(_)
Utf8Encode(s) ==
    IF Len(s) = 0 THEN <<>> ELSE Utf8Char(Head(s)) \o Utf8Encode(Tail(s))

\* Python ints are unbounded.  An int that may exceed the checker's machine
\* integers is kept as its base-256 digits, least significant first.
\* int.from_bytes(b, 'big'): the bytes are the digits, most significant first.
IntFromBytesBig(b) == [k \in 1..Len(b) |-> b[Len(b) + 1 - k]]

\* big * p for a small p: schoolbook multiplication with carry.
RECURSIVE BigMulSmall(_, _, _, _)
BigMulSmall(big, k, p, carry) ==
    IF k > Len(big)
    THEN (IF carry = 0 THEN <<>>
          ELSE <<carry % 256>> \o BigMulSmall(big, k, p, carry \div 256))
    ELSE LET t == big[k] * p + carry
         IN  <<t % 256>> \o BigMulSmall(big, k + 1, p, t \div 256)

\* big % 2^n_bits as a machine integer (n_bits <= 24): the low digits.
RECURSIVE BigModPow2(_, _, _)
BigModPow2(big, k, n_bits) ==
    IF n_bits <= 0 \/ k > Len(big) THEN 0
    ELSE IF n_bits < 8 THEN big[k] % (2^n_bits)
    ELSE big[k] + 256 * BigModPow2(big, k + 1, n_bits - 8)

\* s[i:j] for 0 <= i <= j (Python slice, clipped to the string).
Slice(s, i, j) == SubSeq(s, i + 1, IF j > Len(s) THEN Len(s) ELSE j)

\* x in lst.
InList(x, lst) == \E k \in 1..Len(lst) : lst[k] = x

\* math.ceil(math.log2(n)) for n >= 1.
RECURSIVE CeilLog2From(_, _)
CeilLog2From(n, k) == IF 2^k >= n THEN k ELSE CeilLog2From(n, k + 1)

(***************************************************************************)
(* hashing.py                                                              *)
(***************************************************************************)
primes == <<17, 19, 23, 29, 31, 37, 41, 43, 47>>

\* primes[prime_index - 1] with Python's list indexing: a negative index
\* counts from the end, anything else out of range raises IndexError.
get_prime(p_index) ==
    LET idx == p_index - 1
    IN  IF idx >= 0 /\ idx < Len(primes)
        THEN [exc |-> "none", val |-> primes[idx + 1]]
        ELSE IF idx < 0 /\ idx >= -Len(primes)
        THEN [exc |-> "none", val |-> primes[idx + Len(primes) + 1]]
        ELSE [exc |-> "IndexError", val |-> 0]

make_hash_no_mod(substring, n_bits, p_index) ==
    LET p == get_prime(p_index)
        r == IntFromBytesBig(Utf8Encode(substring))
    IN  IF p.exc # "none" THEN p
        ELSE [exc |-> "none", val |-> BigModPow2(BigMulSmall(r, 1, p.val, 0), 1, 24)]

make_hash(substring, n_bits, p_index) ==
    LET p == get_prime(p_index)
        r == IntFromBytesBig(Utf8Encode(substring))
    IN  IF p.exc # "none" THEN p
        ELSE [exc |-> "none",
              val |-> BigModPow2(BigMulSmall(r, 1, p.val, 0), 1, n_bits)]

\* compare_hash with the two products compared before their reduction to
\* n_bits bits.
compare_hash_unreduced(substring, target, n_bits, p_index) ==
    LET a == make_hash_no_mod(substring, n_bits, p_index)
        b == make_hash_no_mod(target, n_bits, p_index)
    IN  IF a.exc # "none" THEN [exc |-> a.exc, val |-> FALSE]
        ELSE IF b.exc # "none" THEN [exc |-> b.exc, val |-> FALSE]
        ELSE [exc |-> "none", val |-> (a.val = b.val)]

compare_hash(substring, target, n_bits, p_index) ==
    LET a == make_hash(substring, n_bits, p_index)
        b == make_hash(target, n_bits, p_index)
    IN  IF a.exc # "none" THEN [exc |-> a.exc, val |-> FALSE]
        ELSE IF b.exc # "none" THEN [exc |-> b.exc, val |-> FALSE]
        ELSE [exc |-> "none", val |-> (a.val = b.val)]

(***************************************************************************)
(* preprocessing.py                                                        *)
(***************************************************************************)
compute_n_qubits(n_substr) ==
    IF n_substr <= 0 THEN [exc |-> "ValueError", val |-> 0]
    ELSE [exc |-> "none", val |-> CeilLog2From(n_substr, 0)]

\* The inner loop over search_values (lines 38-40): one append per search
\* value whose digest equals the window's, no break.
RECURSIVE AppendMatches(_, _, _, _, _, _, _)
AppendMatches(valid_states, substring, values, k, idx_bits, n_bits, p_index) ==
    IF k > Len(values) THEN valid_states
    ELSE AppendMatches(
            IF compare_hash(substring, values[k], n_bits, p_index).val
            THEN Append(valid_states, idx_bits) ELSE valid_states,
            substring, values, k + 1, idx_bits, n_bits, p_index)

\* range(n_substr) of line 32: the number of window positions visited.
window_range_all_index_states(n_substr, n_qubits) == 2^n_qubits

window_range(n_substr, n_qubits) == n_substr

\* The loop over the window positions i, i + 1, ... (lines 32-40).
RECURSIVE WindowLoop(_, _, _, _, _, _, _, _)
WindowLoop(i, acc, text, values, n_substr, n_qubits, n_bits, p_index) ==
    IF i >= window_range(n_substr, n_qubits) THEN acc
    ELSE
      LET substring_length == Len(values[1])
          substring == Slice(text, i, i + substring_length)
          hash_substring == FormatBin(make_hash(substring, n_bits, p_index).val, n_bits)
          next ==
            [ substrings |-> Append(acc.substrings, hash_substring),
              targets |-> IF InList(substring, values)
                          THEN Append(acc.targets, hash_substring)
                          ELSE acc.targets,
              valid_states |-> AppendMatches(acc.valid_states, substring, values, 1,
                                             FormatBin(i, n_qubits), n_bits, p_index) ]
      IN  WindowLoop(i + 1, next, text, values, n_substr, n_qubits, n_bits, p_index)

EmptyPre(e, n, nq) ==
    [exc |-> e, valid_states |-> <<>>, n_substr |-> n, n_qubits |-> nq,
     substrings |-> <<>>, targets |-> <<>>]

classical_preprocessing(text, values, n_bits, p_index) ==
    IF Len(values) = 0 THEN EmptyPre("IndexError", 0, 0)
    ELSE
      LET substring_length == Len(values[1])
          n_substr == Len(text) - substring_length + 1
          n_qubits == compute_n_qubits(n_substr)
      IN  IF n_qubits.exc # "none" THEN EmptyPre(n_qubits.exc, n_substr, 0)
          ELSE IF get_prime(p_index).exc # "none"
          THEN EmptyPre(get_prime(p_index).exc, n_substr, n_qubits.val)
          ELSE
            LET r == WindowLoop(0, [substrings |-> <<>>, targets |-> <<>>,
                                    valid_states |-> <<>>],
                                text, values, n_substr, n_qubits.val, n_bits, p_index)
            IN  [exc |-> "none", valid_states |-> r.valid_states,
                 n_substr |-> n_substr, n_qubits |-> n_qubits.val,
                 substrings |-> r.substrings, targets |-> r.targets]


(***************************************************************************)
(* Circuits.  A gate is a record: x and h act on the target t, mcx on the  *)
(* target t under the controls c.  Qubits are numbered from 0.  A basis    *)
(* state is a function from the qubits to {0, 1}.  A state is a record     *)
(* [amp, k]: amp maps each basis state of non-zero amplitude to an         *)
(* integer, and the state vector is amp / sqrt(2)^k.                       *)
(***************************************************************************)
XGate(t) == [op |-> "x", c |-> <<>>, t |-> t]
HGate(t) == [op |-> "h", c |-> <<>>, t |-> t]
MCXGate(c, t) == [op |-> "mcx", c |-> c, t |-> t]

Reverse(s) == [k \in 1..Len(s) |-> s[Len(s) + 1 - k]]

RECURSIVE Concat(_)
Concat(ss) == IF Len(ss) = 0 THEN <<>> ELSE Head(ss) \o Concat(Tail(ss))

Flip(b, t) == [b EXCEPT ![t] = 1 - @]

\* x and mcx permute the basis states; both are involutions.
Permuted(g, b) ==
    IF g.op = "x" THEN Flip(b, g.t)
    ELSE IF \A j \in 1..Len(g.c) : b[g.c[j]] = 1 THEN Flip(b, g.t) ELSE b

ApplyH(st, t) ==
    LET dom == DOMAIN st.amp
        cand == {[b EXCEPT ![t] = v] : b \in dom, v \in {0, 1}}
        a0(c) == LET c0 == [c EXCEPT ![t] = 0]
                 IN  IF c0 \in dom THEN st.amp[c0] ELSE 0
        a1(c) == LET c1 == [c EXCEPT ![t] = 1]
                 IN  IF c1 \in dom THEN st.amp[c1] ELSE 0
        raw(c) == IF c[t] = 1 THEN a0(c) - a1(c) ELSE a0(c) + a1(c)
        nz == {c \in cand : raw(c) # 0}
    IN  IF \A c \in nz : raw(c) % 2 = 0
        THEN [amp |-> [c \in nz |-> raw(c) \div 2], k |-> st.k - 1]
        ELSE [amp |-> [c \in nz |-> raw(c)], k |-> st.k + 1]

ApplyGate(st, g) ==
    IF g.op = "h" THEN ApplyH(st, g.t)
    ELSE [amp |-> [c \in {Permuted(g, b) : b \in DOMAIN st.amp} |-> st.amp[Permuted(g, c)]],
          k |-> st.k]

RECURSIVE RunFrom(_, _, _)
RunFrom(st, gates, j) ==
    IF j > Len(gates) THEN st ELSE RunFrom(ApplyGate(st, gates[j]), gates, j + 1)
RunGates(st, gates) == RunFrom(st, gates, 1)

\* The state |b> of amplitude 1.
BasisState(b) == [amp |-> [c \in {b} |-> 1], k |-> 0]

(***************************************************************************)
(* circuits.py: the builders, each as the list of gates it appends.        *)
(***************************************************************************)
\* for k, bit in enumerate(bits): if bit == '0': qc.x(reg[k])
RECURSIVE XWhereZero(_, _, _)
XWhereZero(bits, reg, k) ==
    IF k >= Len(bits) THEN <<>>
    ELSE (IF bits[k + 1] = 0 THEN <<XGate(reg[k + 1])>> ELSE <<>>)
         \o XWhereZero(bits, reg, k + 1)

Qubits(first, n) == [k \in 1..n |-> first + k - 1]

\* One pass of the loop of create_hashed_oracle (lines 15-23).
OracleBlock(n_qubits, bitstring) ==
    XWhereZero(Reverse(bitstring), Qubits(0, n_qubits), 0)
    \o <<HGate(n_qubits - 1),
         MCXGate(Qubits(0, n_qubits - 1), n_qubits - 1),
         HGate(n_qubits - 1)>>
    \o XWhereZero(Reverse(bitstring), Qubits(0, n_qubits), 0)

create_hashed_oracle(n_qubits, valid_states) ==
    Concat([j \in 1..Len(valid_states) |-> OracleBlock(n_qubits, valid_states[j])])

\* Lines 172-180 (and 200-206): the controlled load of one value bit.
LoadBlock(index_bin, qreg_idx, val_qubit) ==
    XWhereZero(index_bin, qreg_idx, 0)
    \o <<MCXGate(qreg_idx, val_qubit)>>
    \o XWhereZero(index_bin, qreg_idx, 0)

\* The positions of the '1' characters of val_bin, enumerated without
\* reversed().
SetBits_unreversed(val_bin) ==
    SelectSeq([k \in 1..Len(val_bin) |-> k - 1], LAMBDA v : val_bin[v + 1] = 1)

\* The (val_qubit, bit_char) pairs of enumerate(reversed(val_bin)) whose
\* bit is '1', as value-register positions in enumeration order.
SetBits(val_bin) ==
    LET r == Reverse(val_bin)
    IN  SelectSeq([k \in 1..Len(r) |-> k - 1], LAMBDA v : r[v + 1] = 1)

LoadEntry(i, array, qreg_idx, qreg_val, positions) ==
    Concat([j \in 1..Len(positions) |->
              LoadBlock(FormatBin(i, Len(qreg_idx)), qreg_idx, qreg_val[positions[j] + 1])])

load_array(array, qreg_idx, qreg_val) ==
    Concat([j \in 1..Len(array) |->
              LoadEntry(j - 1, array, qreg_idx, qreg_val, SetBits(array[j]))])

\* unload_array that skips the last entry of the array.
unload_array_skips_last(array, qreg_idx, qreg_val) ==
    Concat([j \in 1..(Len(array) - 1) |->
              LET i == Len(array) - 1 - j
              IN  LoadEntry(i, array, qreg_idx, qreg_val, Reverse(SetBits(array[i + 1])))])

unload_array(array, qreg_idx, qreg_val) ==
    Concat([j \in 1..Len(array) |->
              LET i == Len(array) - j
              IN  LoadEntry(i, array, qreg_idx, qreg_val, Reverse(SetBits(array[i + 1])))])

\* One pass of the loop of mark_if_value_is_target (lines 224-234).
MarkBlock(target, qreg_val, phase) ==
    XWhereZero(Reverse(target), qreg_val, 0)
    \o <<HGate(phase), MCXGate(qreg_val, phase), HGate(phase)>>
    \o XWhereZero(Reverse(target), qreg_val, 0)

mark_if_value_is_target(targets, qreg_val, phase) ==
    Concat([j \in 1..Len(targets) |-> MarkBlock(targets[j], qreg_val, phase)])

\* The registers of grover_search_circuit (lines 130-135): idx, val, phase.
QregIdx == Qubits(0, c_idx)
QregVal == Qubits(c_idx, c_val)
QregPhase == c_idx + c_val

(***************************************************************************)
(* metrics.py.  A measurement histogram (a dict from outcome strings to    *)
(* counts) is the sequence of its items in iteration order.  A float is    *)
(* held in millionths, and an angle or a quotient by its numerator and     *)
(* denominator.                                                            *)
(***************************************************************************)
\* One unit in millionths; the threshold 1e-6 of run_full_search is 1.
Micro == 1000000
\* math.pi ** 2 in millionths.
PiSqMicro == 9869604

\* math.sin(math.pi * j / 32) ** 2 in millionths for j = 0..31 (math.sin
\* returns exactly 1.0 at pi / 2, and exactly 0.0 at 0).
SinSqMicro ==
    <<0, 9607, 38060, 84265, 146447, 222215, 308658, 402455,
      500000, 597545, 691342, 777785, 853553, 915735, 961940, 990393,
      1000000, 990393, 961940, 915735, 853553, 777785, 691342, 597545,
      500000, 402455, 308658, 222215, 146447, 84265, 38060, 9607>>

\* (math.sin(theta_est / 2)) ** 2 for theta_est = (r / 2 ** p) * 2 * pi,
\* for counting registers of at most 5 qubits.
sin_sq_half_theta(r, p) == SinSqMicro[r * 2^(5 - p) + 1]

RECURSIVE SeqSum(_)
SeqSum(s) == IF Len(s) = 0 THEN 0 ELSE Head(s) + SeqSum(Tail(s))

\* sum(counts.values())
TotalShots(counts) == SeqSum([j \in 1..Len(counts) |-> counts[j].count])

\* The position of the last item whose count no other item exceeds.
max_by_count_last(counts) ==
    CHOOSE j \in 1..Len(counts) :
        /\ \A i \in 1..Len(counts) : counts[i].count <= counts[j].count
        /\ \A i \in (j + 1)..Len(counts) : counts[i].count < counts[j].count

\* max(counts, key=counts.get): the position of the first item, in
\* iteration order, whose count no other item exceeds.
max_by_count(counts) ==
    CHOOSE j \in 1..Len(counts) :
        /\ \A i \in 1..Len(counts) : counts[i].count <= counts[j].count
        /\ \A i \in 1..(j - 1) : counts[i].count < counts[j].count

NoEstimate(e) == [exc |-> e, M_est |-> 0, theta_est |-> [num |-> 0, den |-> 1], r |-> 0]

\* max() of an empty dict raises ValueError.  theta_est is in units of
\* 2 * pi.
estimate_marked_state_count(counts, p, n_substr) ==
    IF Len(counts) = 0 THEN NoEstimate("ValueError")
    ELSE
      LET most_common == counts[max_by_count(counts)].outcome
          r == IntOfBits(most_common)
      IN  [exc |-> "none",
           M_est |-> n_substr * (Micro - sin_sq_half_theta(r, p)),
           theta_est |-> [num |-> r, den |-> 2^p],
           r |-> r]

AbsInt(x) == IF x < 0 THEN -x ELSE x

\* compute_errors: abs_error in millionths, rel_error as a quotient.
compute_errors(M_est, true_M) ==
    LET abs_error == AbsInt(M_est - true_M * Micro)
    IN  [abs_error |-> abs_error,
         rel_error |-> IF true_M # 0 THEN [num |-> abs_error, den |-> true_M * Micro]
                       ELSE [num |-> 0, den |-> 1]]

\* compute_statistics: the division by total_shots raises
\* ZeroDivisionError on an empty histogram.  With S1 and S2 the weighted
\* sums of int(k, 2) and of its square, mean_r = S1 / total and
\* var_r = (total * S2 - S1 ** 2) / total ** 2.
compute_statistics(counts) ==
    LET total_shots == TotalShots(counts)
        val(j) == IntOfBits(counts[j].outcome)
        S1 == SeqSum([j \in 1..Len(counts) |-> val(j) * counts[j].count])
        S2 == SeqSum([j \in 1..Len(counts) |-> val(j) * val(j) * counts[j].count])
    IN  IF total_shots = 0
        THEN [exc |-> "ZeroDivisionError",
              mean_r |-> [num |-> 0, den |-> 1], var_r |-> [num |-> 0, den |-> 1]]
        ELSE [exc |-> "none",
              mean_r |-> [num |-> S1, den |-> total_shots],
              var_r |-> [num |-> total_shots * S2 - S1 * S1,
                         den |-> total_shots * total_shots]]

(***************************************************************************)
(* circuits.py: the search circuit, as the list of its parts.              *)
(***************************************************************************)
\* qc.h(range) and qc.x(range): one gate per qubit of the register.
HAll(reg) == [k \in 1..Len(reg) |-> HGate(reg[k])]
XAll(reg) == [k \in 1..Len(reg) |-> XGate(reg[k])]
\* qc.measure(qreg, creg): qubit k into classical bit k (held in field c).
MeasureAll(reg) == [k \in 1..Len(reg) |-> [op |-> "measure", c |-> <<k - 1>>, t |-> reg[k]]]

\* diffuser(n_qubits), appended on the register reg.
diffuser(reg) ==
    LET n_qubits == Len(reg)
        last == reg[n_qubits]
    IN  HAll(reg) \o XAll(reg)
        \o <<HGate(last), MCXGate(SubSeq(reg, 1, n_qubits - 1), last), HGate(last)>>
        \o XAll(reg) \o HAll(reg)

\* grover_operator: diff_op.compose(oracle) is the circuit of diff_op
\* followed by the gates of oracle.
grover_operator(n_qubits, valid_states) ==
    diffuser(Qubits(0, n_qubits)) \o create_hashed_oracle(n_qubits, valid_states)

Part(call, gates) == [call |-> call, gates |-> gates]

\* One pass of the loop of grover_search_circuit (lines 143-147).
GroverIteration(possible_states, targets, qreg_idx, qreg_val, qreg_phase) ==
    <<Part("load", load_array(possible_states, qreg_idx, qreg_val)),
      Part("mark", mark_if_value_is_target(targets, qreg_val, qreg_phase)),
      Part("unload", unload_array(possible_states, qreg_idx, qreg_val)),
      Part("diffuser", diffuser(qreg_idx))>>

\* grover_search_circuit for n_qubits >= 2 and a non-empty possible_states
\* (valid_states is unused).
grover_search_circuit(n_qubits, valid_states, iterations, possible_states, targets) ==
    LET num_val == Len(possible_states[1])
        qreg_idx == Qubits(0, n_qubits)
        qreg_val == Qubits(n_qubits, num_val)
        qreg_phase == n_qubits + num_val
    IN  <<Part("init", HAll(qreg_idx) \o <<XGate(qreg_phase), HGate(qreg_phase)>>)>>
        \o Concat([j \in 1..iterations |->
                     GroverIteration(possible_states, targets, qreg_idx, qreg_val, qreg_phase)])
        \o <<Part("measure", MeasureAll(qreg_idx))>>

(***************************************************************************)
(* adaptive_search.py: the derivations of run_full_search.                 *)
(***************************************************************************)
\* int(x) for x = (math.pi / 4) * math.sqrt(n_substr / M_est): the least k
\* with x < k + 1, that is pi^2 * n_substr < 16 * (k + 1)^2 * M_est.
RECURSIVE truncate_quarter_pi_sqrt(_, _, _)
truncate_quarter_pi_sqrt(n_substr, M_est, k) ==
    IF PiSqMicro * n_substr < 16 * (k + 1) * (k + 1) * M_est THEN k
    ELSE truncate_quarter_pi_sqrt(n_substr, M_est, k + 1)

\* int(round(x)) for x = (math.pi / 4) * math.sqrt(n_substr / M_est): the
\* least k with x < k + 1/2, that is
\* pi^2 * n_substr < 4 * (2k + 1)^2 * M_est.
RECURSIVE round_quarter_pi_sqrt(_, _, _)
round_quarter_pi_sqrt(n_substr, M_est, k) ==
    IF PiSqMicro * n_substr < 4 * (2 * k + 1) * (2 * k + 1) * M_est THEN k
    ELSE round_quarter_pi_sqrt(n_substr, M_est, k + 1)

\* The derivation with int() in place of int(round()).
derive_optimal_iterations_truncating(M_est, n_substr) ==
    IF M_est < 1 THEN 0 ELSE truncate_quarter_pi_sqrt(n_substr, M_est, 0)

\* Line 39.
derive_optimal_iterations(M_est, n_substr) ==
    IF M_est < 1 THEN 0 ELSE round_quarter_pi_sqrt(n_substr, M_est, 0)

NoValidation ==
    [valid_shots |-> 0, total_shots |-> 0, valid_fraction |-> [num |-> 0, den |-> 1]]

\* The validation with int(outcome, 2) in place of int(outcome[::-1], 2).
validate_unreversed(valid_states, search_counts) ==
    LET valid_indices == {IntOfBits(valid_states[j]) : j \in 1..Len(valid_states)}
        total_shots == TotalShots(search_counts)
        valid_shots ==
            SeqSum([j \in 1..Len(search_counts) |->
                      IF IntOfBits(search_counts[j].outcome) \in valid_indices
                      THEN search_counts[j].count ELSE 0])
    IN  [valid_shots |-> valid_shots, total_shots |-> total_shots,
         valid_fraction |-> IF total_shots > 0
                            THEN [num |-> valid_shots, den |-> total_shots]
                            ELSE [num |-> 1, den |-> 1]]

\* Lines 48-54.
validate(valid_states, search_counts) ==
    LET valid_indices == {IntOfBits(valid_states[j]) : j \in 1..Len(valid_states)}
        total_shots == TotalShots(search_counts)
        valid_shots ==
            SeqSum([j \in 1..Len(search_counts) |->
                      IF IntOfBits(Reverse(search_counts[j].outcome)) \in valid_indices
                      THEN search_counts[j].count ELSE 0])
    IN  [valid_shots |-> valid_shots, total_shots |-> total_shots,
         valid_fraction |-> IF total_shots > 0
                            THEN [num |-> valid_shots, den |-> total_shots]
                            ELSE [num |-> 1, den |-> 1]]

NoResults(e) ==
    [exc |-> e, true_M |-> 0,
     expected_theta |-> [none |-> TRUE, num |-> 0, den |-> 1],
     errors |-> compute_errors(0, 0),
     mean_r |-> [num |-> 0, den |-> 1], var_r |-> [num |-> 0, den |-> 1]]

\* Lines 57-62.  expected_theta = 2 * asin(sqrt(num / den)); math.asin
\* raises ValueError outside [-1, 1].
summarize(valid_states, n_substr, M_est, count_counts) ==
    LET true_M == Len(valid_states)
        stats == compute_statistics(count_counts)
    IN  IF true_M > n_substr THEN NoResults("ValueError")
        ELSE IF stats.exc # "none" THEN NoResults(stats.exc)
        ELSE [exc |-> "none", true_M |-> true_M,
              expected_theta |-> IF true_M > 0
                                 THEN [none |-> FALSE, num |-> true_M, den |-> n_substr]
                                 ELSE [none |-> TRUE, num |-> 0, den |-> 1],
              errors |-> compute_errors(M_est, true_M),
              mean_r |-> stats.mean_r, var_r |-> stats.var_r]

\* The statement order of run_full_search with the derivation of the
\* iteration count moved before the counting run.
stage_after_derive_first(stage) ==
    CASE stage = "PREPROCESS" -> "DERIVE_ITERATIONS"
      [] stage = "DERIVE_ITERATIONS" -> "COUNT"
      [] stage = "COUNT" -> "SEARCH"
      [] stage = "SEARCH" -> "VALIDATE"
      [] stage = "VALIDATE" -> "SUMMARIZE"
      [] stage = "SUMMARIZE" -> "returned"

\* The statement order of run_full_search (lines 29-92).
stage_after(stage) ==
    CASE stage = "PREPROCESS" -> "COUNT"
      [] stage = "COUNT" -> "DERIVE_ITERATIONS"
      [] stage = "DERIVE_ITERATIONS" -> "SEARCH"
      [] stage = "SEARCH" -> "VALIDATE"
      [] stage = "VALIDATE" -> "SUMMARIZE"
      [] stage = "SUMMARIZE" -> "returned"

(***************************************************************************)
(* Inputs.                                                                 *)
(***************************************************************************)
\* 'a', 'b', 'q' and 'e' with an acute accent (two UTF-8 bytes).
HashAlphabet == {97, 98, 113, 233}
\* 'a' and 'q' differ by 16, so they share every digest of at most 4 bits.
TextAlphabet == {97, 98, 113}

StringsUpTo(alphabet, n) == UNION {[1..k -> alphabet] : k \in 0..n}

\* A text of length n that repeats a two-character seed.
Repeat(seed, n) == [k \in 1..n |-> seed[((k - 1) % Len(seed)) + 1]]
TextLens == {1, 2, 3, MaxTextLen - 1, MaxTextLen}
Texts == {Repeat(seed, n) : seed \in [1..2 -> TextAlphabet], n \in TextLens}

TargetLens == {1, 2}
TargetLists ==
    UNION {[1..m -> [1..len -> TextAlphabet]] : m \in 1..MaxTargets, len \in TargetLens}

\* (hash_bits, prime_index): the defaults of AHQuHSSA, and a digest wider
\* than one byte with the defaults' prime of run_full_search.
PreConfigs == {<<4, 6>>, <<9, 1>>}

\* The inputs of run_full_search: texts of 3 or 4 one-character windows
\* (an index register of 2 qubits) with no, some or only matching windows,
\* one target or two colliding ones, the hash parameters that AHQuHSSA
\* passes, and counting registers of 1 to 3 qubits.
RunSeeds == {<<97, 98>>, <<97, 113>>, <<98, 98>>}
RunTextLens == {3, 4}
RunTexts == {Repeat(seed, n) : seed \in RunSeeds, n \in RunTextLens}
RunTargetLists == {<<<<97>>>>, <<<<97>>, <<113>>>>}
RunConfig == <<4, 6>>
PCounts == {1, 2, 3}

(***************************************************************************)
(* Specification of repeated make_hash calls.                              *)
(***************************************************************************)
HashIdle ==
    /\ h_substring = <<>> /\ h_target = <<>> /\ h_hash_bits = 1 /\ h_prime_index = 1 /\ h_results = <<>>
CircuitIdle ==
    /\ c_idx = 0 /\ c_val = 0 /\ c_array = <<>> /\ c_targets = <<>>
    /\ c_valid_states = <<>> /\ c_todo = <<>> /\ c_done = <<>> /\ qc = <<>>
    /\ q = BasisState(<<>>) /\ q_before = BasisState(<<>>)
PreIdle ==
    /\ input_text = <<>> /\ search_values = <<>> /\ hash_bits = 1 /\ prime_index = 1
    /\ pre_pc = "idle" /\ pre_out = EmptyPre("none", 0, 0)
\* The locals of run_full_search before any statement has run.
RunFresh ==
    /\ run_stages = <<>> /\ run_exc = "none"
    /\ counts_count = <<>> /\ estimate = NoEstimate("unset")
    /\ optimal_iterations = 0 /\ qc_search = <<>> /\ counts_search = <<>>
    /\ validation = NoValidation /\ results = NoResults("unset")
RunIdle ==
    /\ p_count = 1 /\ shots = 1 /\ run_pc = "idle" /\ RunFresh
\* The locals of run_tests at the start of a sweep cell, and before the
\* first assignment of `results`.
NoSweepResults ==
    [bound |-> FALSE, cell |-> <<0, 0>>, n_substr |-> 0, n_qubits |-> 0,
     optimal_iterations |-> 0]
SweepIdle ==
    /\ sw_target_n_qubits = <<>> /\ sw_num_correct_list = <<>> /\ sw_repeats = 1
    /\ sw_pc = "idle" /\ sw_i = 1 /\ sw_j = 1 /\ sw_rep = 0
    /\ sw_results = NoSweepResults /\ sw_accum = 0 /\ sw_rows = <<>>

InitHash ==
    /\ h_substring \in StringsUpTo(HashAlphabet, MaxStrLen)
    /\ h_target = <<>>
    /\ h_hash_bits \in 1..MaxHashBits
    /\ h_prime_index \in 1..Len(primes)
    /\ h_results = <<>>
    /\ PreIdle /\ CircuitIdle /\ RunIdle /\ SweepIdle

CallMakeHash ==
    /\ Len(h_results) < MaxCalls
    /\ h_results' = Append(h_results, make_hash(h_substring, h_hash_bits, h_prime_index))
    /\ UNCHANGED <<h_substring, h_target, h_hash_bits, h_prime_index, pvars, cvars, rvars, svars>>

NextHash == CallMakeHash
SpecHash == InitHash /\ [][NextHash]_vars

(***************************************************************************)
(* Specification of repeated get_prime calls on any integer index.         *)
(***************************************************************************)
InitPrime ==
    /\ h_substring = <<>>
    /\ h_target = <<>>
    /\ h_hash_bits = 1
    /\ h_prime_index \in (-MaxPrimeIndex)..MaxPrimeIndex
    /\ h_results = <<>>
    /\ PreIdle /\ CircuitIdle /\ RunIdle /\ SweepIdle

CallGetPrime ==
    /\ Len(h_results) < MaxCalls
    /\ h_results' = Append(h_results, get_prime(h_prime_index))
    /\ UNCHANGED <<h_substring, h_target, h_hash_bits, h_prime_index, pvars, cvars, rvars, svars>>

NextPrime == CallGetPrime
SpecPrime == InitPrime /\ [][NextPrime]_vars

(***************************************************************************)
(* Specification of compare_hash called on one pair of strings with each   *)
(* prime index of the table in turn.                                       *)
(***************************************************************************)
InitCompare ==
    /\ h_substring \in StringsUpTo(HashAlphabet, MaxStrLen)
    /\ h_target \in StringsUpTo(HashAlphabet, MaxStrLen)
    /\ h_hash_bits \in 1..MaxHashBits
    /\ h_prime_index = 1
    /\ h_results = <<>>
    /\ PreIdle /\ CircuitIdle /\ RunIdle /\ SweepIdle

CallCompareHash ==
    /\ h_prime_index <= Len(primes)
    /\ h_results' = Append(h_results,
                           compare_hash(h_substring, h_target, h_hash_bits, h_prime_index))
    /\ h_prime_index' = h_prime_index + 1
    /\ UNCHANGED <<h_substring, h_target, h_hash_bits, pvars, cvars, rvars, svars>>

NextCompare == CallCompareHash
SpecCompare == InitCompare /\ [][NextCompare]_vars

(***************************************************************************)
(* Specification of one classical_preprocessing call.                      *)
(***************************************************************************)
InitPre ==
    /\ input_text \in Texts
    /\ search_values \in TargetLists
    /\ \E c \in PreConfigs : hash_bits = c[1] /\ prime_index = c[2]
    /\ pre_pc = "call"
    /\ pre_out = EmptyPre("none", 0, 0)
    /\ HashIdle /\ CircuitIdle /\ RunIdle /\ SweepIdle

CallPreprocessing ==
    /\ pre_pc = "call"
    /\ pre_out' = classical_preprocessing(input_text, search_values, hash_bits, prime_index)
    /\ pre_pc' = IF pre_out'.exc = "none" THEN "returned" ELSE "raised"
    /\ UNCHANGED <<input_text, search_values, hash_bits, prime_index, hvars, cvars, rvars, svars>>

NextPre == CallPreprocessing
SpecPre == InitPre /\ [][NextPre]_vars

\* ---- the same call on targets that do not all have the same length
MixedTargetLists ==
    {ts \in UNION {[1..m -> UNION {[1..len -> TextAlphabet] : len \in TargetLens}] :
                      m \in 2..MaxTargets} :
        \E j \in 1..Len(ts) : Len(ts[j]) # Len(ts[1])}

InitPreMixed ==
    /\ input_text \in Texts
    /\ search_values \in MixedTargetLists
    /\ \E c \in PreConfigs : hash_bits = c[1] /\ prime_index = c[2]
    /\ pre_pc = "call"
    /\ pre_out = EmptyPre("none", 0, 0)
    /\ HashIdle /\ CircuitIdle /\ RunIdle /\ SweepIdle

SpecPreMixed == InitPreMixed /\ [][NextPre]_vars

(***************************************************************************)
(* Specifications of the circuits.  Each builder call appends its gates,   *)
(* and q follows as the state after the gates appended so far.             *)
(***************************************************************************)
BitStrings(n) == [1..n -> {0, 1}]
Min(a, b) == IF a < b THEN a ELSE b
Arrays(n_idx, n_val) ==
    UNION {[1..n -> BitStrings(n_val)] : n \in 1..Min(MaxArrayLen, 2^n_idx)}
ListsUpTo(S, n) == UNION {[1..m -> S] : m \in 0..n}

\* The index register holds the basis state b, every other qubit is 0.
IndexBasis(b, n_total) ==
    BasisState([j \in 0..(n_total - 1) |-> IF j < Len(b) THEN b[j + 1] ELSE 0])

\* The next builder call is `call`: its gates are appended and executed.
Call(call, gates) ==
    /\ Len(c_todo) > 0
    /\ Head(c_todo) = call
    /\ c_todo' = Tail(c_todo)
    /\ c_done' = Append(c_done, call)
    /\ qc' = Append(qc, gates)
    /\ q' = RunGates(q, gates)
    /\ UNCHANGED <<c_idx, c_val, c_array, c_targets, c_valid_states, hvars, pvars, rvars, svars>>

\* Lines 139-140: qc.x(qreg_phase); qc.h(qreg_phase).  The sequence under
\* study starts from the state this leaves.
PreparePhase ==
    /\ Call("phase", <<XGate(QregPhase), HGate(QregPhase)>>)
    /\ q_before' = q'

LoadArray ==
    /\ Call("load", load_array(c_array, QregIdx, QregVal))
    /\ UNCHANGED q_before

MarkIfValueIsTarget ==
    /\ Call("mark", mark_if_value_is_target(c_targets, QregVal, QregPhase))
    /\ UNCHANGED q_before

UnloadArray ==
    /\ Call("unload", unload_array(c_array, QregIdx, QregVal))
    /\ UNCHANGED q_before

ApplyOracle ==
    /\ Call("oracle", create_hashed_oracle(c_idx, c_valid_states))
    /\ UNCHANGED q_before

\* ---- load_array; unload_array
InitLoad ==
    /\ c_idx \in 1..MaxIdxQubits
    /\ c_val \in 1..MaxValQubits
    /\ c_array \in Arrays(c_idx, c_val)
    /\ c_targets = <<>>
    /\ c_valid_states = <<>>
    /\ c_todo = <<"load", "unload">>
    /\ c_done = <<>>
    /\ qc = <<>>
    /\ \E b \in BitStrings(c_idx) : q = IndexBasis(b, c_idx + c_val + 1)
    /\ q_before = q
    /\ HashIdle /\ PreIdle /\ RunIdle /\ SweepIdle

NextLoad == LoadArray \/ UnloadArray
SpecLoad == InitLoad /\ [][NextLoad]_vars

\* ---- the oracle of grover_search_circuit (lines 139-146): the phase
\* ---- ancilla, then load_array; mark_if_value_is_target; unload_array
InitMark ==
    /\ c_idx \in 1..MaxIdxQubits
    /\ c_val \in 1..MaxValQubits
    /\ c_array \in Arrays(c_idx, c_val)
    /\ c_targets \in ListsUpTo(BitStrings(c_val), MaxMarkTargets)
    /\ c_valid_states = <<>>
    /\ c_todo = <<"phase", "load", "mark", "unload">>
    /\ c_done = <<>>
    /\ qc = <<>>
    /\ \E b \in BitStrings(c_idx) : q = IndexBasis(b, c_idx + c_val + 1)
    /\ q_before = q
    /\ HashIdle /\ PreIdle /\ RunIdle /\ SweepIdle

NextMark == PreparePhase \/ LoadArray \/ MarkIfValueIsTarget \/ UnloadArray
SpecMark == InitMark /\ [][NextMark]_vars

\* ---- create_hashed_oracle on the index register alone
InitOracle ==
    /\ c_idx \in 2..MaxOracleQubits
    /\ c_val = 0
    /\ c_array = <<>>
    /\ c_targets = <<>>
    /\ c_valid_states \in ListsUpTo(BitStrings(c_idx), MaxOracleStates)
    /\ c_todo = <<"oracle">>
    /\ c_done = <<>>
    /\ qc = <<>>
    /\ \E b \in BitStrings(c_idx) : q = IndexBasis(b, c_idx)
    /\ q_before = q
    /\ HashIdle /\ PreIdle /\ RunIdle /\ SweepIdle

NextOracle == ApplyOracle
SpecOracle == InitOracle /\ [][NextOracle]_vars

(***************************************************************************)
(* Specification of one invocation of run_full_search.  Each stage is one  *)
(* action; an exception ends the invocation in the stage that raised it.   *)
(* The circuits run on a backend, which returns a histogram; the index     *)
(* register has at least 2 qubits, which every circuit builder accepts.    *)
(***************************************************************************)
\* The histograms a backend returns for `n_shots` shots of a circuit with
\* `width` classical bits: nothing, or all shots on one outcome or spread
\* over two, in either iteration order.
Item(outcome, count) == [outcome |-> outcome, count |-> count]
Histograms(width, n_shots) ==
    {<<>>}
    \cup {<<Item(a, n_shots)>> : a \in BitStrings(width)}
    \cup {<<Item(pr[1], k), Item(pr[2], n_shots - k)>> :
             pr \in {x \in BitStrings(width) \X BitStrings(width) : x[1] # x[2]},
             k \in 1..(n_shots - 1)}

InitRun ==
    /\ input_text \in RunTexts
    /\ search_values \in RunTargetLists
    /\ hash_bits = RunConfig[1] /\ prime_index = RunConfig[2]
    /\ pre_pc = "call"
    /\ pre_out = EmptyPre("none", 0, 0)
    /\ p_count \in PCounts
    /\ shots \in 1..MaxShots
    /\ run_pc = "PREPROCESS"
    /\ RunFresh
    /\ HashIdle /\ CircuitIdle /\ SweepIdle

\* The stage `stage` has run: it raised `exc`, or the next statement follows.
Stage(stage, exc) ==
    /\ run_stages' = Append(run_stages, stage)
    /\ run_exc' = exc
    /\ run_pc' = IF exc = "none" THEN stage_after(stage) ELSE "raised"
    /\ UNCHANGED <<input_text, search_values, hash_bits, prime_index, p_count, shots,
                   hvars, cvars, svars>>

\* Line 29.
Preprocess ==
    /\ run_pc = "PREPROCESS"
    /\ pre_out' = classical_preprocessing(input_text, search_values, hash_bits, prime_index)
    /\ pre_pc' = IF pre_out'.exc = "none" THEN "returned" ELSE "raised"
    /\ Stage("PREPROCESS", pre_out'.exc)
    /\ UNCHANGED <<counts_count, estimate, optimal_iterations, qc_search, counts_search,
                   validation, results>>

\* Lines 32-36: run_counting, then estimate_marked_state_count.
Count ==
    /\ run_pc = "COUNT"
    /\ \E counts \in Histograms(p_count, shots) :
          /\ counts_count' = counts
          /\ estimate' = estimate_marked_state_count(counts, p_count, pre_out.n_substr)
    /\ Stage("COUNT", estimate'.exc)
    /\ UNCHANGED <<pre_pc, pre_out, optimal_iterations, qc_search, counts_search,
                   validation, results>>

\* Line 39.
DeriveIterations ==
    /\ run_pc = "DERIVE_ITERATIONS"
    /\ optimal_iterations' = derive_optimal_iterations(estimate.M_est, pre_out.n_substr)
    /\ Stage("DERIVE_ITERATIONS", "none")
    /\ UNCHANGED <<pre_pc, pre_out, counts_count, estimate, qc_search, counts_search,
                   validation, results>>

\* Lines 42-45: run_grover_search builds the circuit and runs it.
Search ==
    /\ run_pc = "SEARCH"
    /\ qc_search' = grover_search_circuit(pre_out.n_qubits, pre_out.valid_states,
                                          optimal_iterations, pre_out.substrings,
                                          pre_out.targets)
    /\ counts_search' \in Histograms(pre_out.n_qubits, shots)
    /\ Stage("SEARCH", "none")
    /\ UNCHANGED <<pre_pc, pre_out, counts_count, estimate, optimal_iterations,
                   validation, results>>

\* Lines 48-54.
Validate ==
    /\ run_pc = "VALIDATE"
    /\ validation' = validate(pre_out.valid_states, counts_search)
    /\ Stage("VALIDATE", "none")
    /\ UNCHANGED <<pre_pc, pre_out, counts_count, estimate, optimal_iterations,
                   qc_search, counts_search, results>>

\* Lines 57-92.
Summarize ==
    /\ run_pc = "SUMMARIZE"
    /\ results' = summarize(pre_out.valid_states, pre_out.n_substr, estimate.M_est,
                            counts_count)
    /\ Stage("SUMMARIZE", results'.exc)
    /\ UNCHANGED <<pre_pc, pre_out, counts_count, estimate, optimal_iterations,
                   qc_search, counts_search, validation>>

Next == Preprocess \/ Count \/ DeriveIterations \/ Search \/ Validate \/ Summarize
Spec == InitRun /\ [][Next]_vars

\* ---- one Grover step on the index register alone: the operator of
\* ---- grover_operator, or the loop body of grover_basic_search_circuit
\* ---- (lines 108-110)
GroverOperator ==
    /\ Call("grover_operator", grover_operator(c_idx, c_valid_states))
    /\ UNCHANGED q_before

ApplyDiffuser ==
    /\ Call("diffuser", diffuser(QregIdx))
    /\ UNCHANGED q_before

InitGrover ==
    /\ c_idx \in 2..MaxOracleQubits
    /\ c_val = 0
    /\ c_array = <<>>
    /\ c_targets = <<>>
    /\ c_valid_states \in ListsUpTo(BitStrings(c_idx), MaxOracleStates)
    /\ c_todo \in {<<"grover_operator">>, <<"oracle", "diffuser">>}
    /\ c_done = <<>>
    /\ qc = <<>>
    /\ \E b \in BitStrings(c_idx) : q = IndexBasis(b, c_idx)
    /\ q_before = q
    /\ HashIdle /\ PreIdle /\ RunIdle /\ SweepIdle

NextGrover == GroverOperator \/ ApplyOracle \/ ApplyDiffuser
SpecGrover == InitGrover /\ [][NextGrover]_vars

(***************************************************************************)
(* Specification of one sweep of AHQuHSSA.run_tests over the cells         *)
(* (n_qubits_target, num_correct), for one p_count and one shots value.    *)
(* The targets have one character each and there are MaxNumCorrect of      *)
(* them.  A search run is taken by what run_tests reads of it: n_substr    *)
(* and n_qubits as classical_preprocessing computes them from the text     *)
(* length, and an iteration count; the record also carries the cell that   *)
(* produced it.                                                            *)
(***************************************************************************)
\* self.search_values: MaxNumCorrect targets of one character each.
SweepSearchValues == [k \in 1..MaxNumCorrect |-> <<96 + k>>]
SweepTargetLen == Len(SweepSearchValues[1])
SweepIterations == {0, 1}

\* utils.py, generate_input_text_fixed: the length of the text it returns,
\* or ValueError when there are more targets than slots
\* range(0, input_length - L + 1, L).
generate_input_text_fixed(input_length, n_targets, L) ==
    LET valid_positions == (input_length - L + 1 + L - 1) \div L
    IN  IF n_targets > valid_positions THEN [exc |-> "ValueError", len |-> 0]
        ELSE [exc |-> "none", len |-> input_length]

\* Lines 79-81 and 107-110 for the cell at (sw_i, sw_j).
SweepCell == <<sw_i, sw_j>>
SweepNumCorrect == sw_num_correct_list[sw_j]
SweepInputLength == 2^sw_target_n_qubits[sw_i] + SweepTargetLen - 1
\* self.search_values[:num_correct]
SweepCurrentTargets ==
    SubSeq(SweepSearchValues, 1, Min(SweepNumCorrect, Len(SweepSearchValues)))
SweepText ==
    generate_input_text_fixed(SweepInputLength, Len(SweepCurrentTargets), SweepTargetLen)

InitSweep ==
    /\ sw_target_n_qubits \in UNION {[1..m -> 1..MaxSweepQubits] : m \in 1..MaxSweepList}
    /\ sw_num_correct_list \in UNION {[1..m -> 1..MaxNumCorrect] : m \in 1..MaxSweepList}
    /\ sw_repeats \in 1..MaxRepeats
    /\ sw_pc = "repeat"
    /\ sw_i = 1 /\ sw_j = 1 /\ sw_rep = 0
    /\ sw_results = NoSweepResults
    /\ sw_accum = 0
    /\ sw_rows = <<>>
    /\ HashIdle /\ PreIdle /\ CircuitIdle /\ RunIdle

InRepeatLoop == sw_pc = "repeat" /\ sw_rep < sw_repeats

\* Lines 106-113: generate_input_text_fixed raises ValueError, the repeat
\* is skipped.
SkipRepeat ==
    /\ InRepeatLoop
    /\ SweepText.exc = "ValueError"
    /\ sw_rep' = sw_rep + 1
    /\ UNCHANGED <<sw_target_n_qubits, sw_num_correct_list, sw_repeats,
                   sw_pc, sw_i, sw_j, sw_results, sw_accum, sw_rows,
                   hvars, pvars, cvars, rvars>>

\* Lines 115-161: run_full_search returns, `results` is assigned and the
\* accumulators grow.
RunRepeat ==
    /\ InRepeatLoop
    /\ SweepText.exc = "none"
    /\ \E iterations \in SweepIterations :
          LET n_substr == SweepText.len - SweepTargetLen + 1
          IN  /\ sw_results' = [bound |-> TRUE, cell |-> SweepCell,
                                n_substr |-> n_substr,
                                n_qubits |-> compute_n_qubits(n_substr).val,
                                optimal_iterations |-> iterations]
              /\ sw_accum' = sw_accum + iterations
    /\ sw_rep' = sw_rep + 1
    /\ UNCHANGED <<sw_target_n_qubits, sw_num_correct_list, sw_repeats,
                   sw_pc, sw_i, sw_j, sw_rows, hvars, pvars, cvars, rvars>>

\* Line 116: run_full_search raises, and run_tests with it.
RunRepeatRaises ==
    /\ InRepeatLoop
    /\ SweepText.exc = "none"
    /\ sw_pc' = "raised"
    /\ UNCHANGED <<sw_target_n_qubits, sw_num_correct_list, sw_repeats,
                   sw_i, sw_j, sw_rep, sw_results, sw_accum, sw_rows,
                   hvars, pvars, cvars, rvars>>

\* Lines 163-193, then the next cell (lines 77-102): the row is built from
\* the averages and from `results`; reading `results` before its first
\* assignment raises UnboundLocalError.
WriteRow ==
    /\ sw_pc = "repeat"
    /\ sw_rep = sw_repeats
    /\ IF ~sw_results.bound
       THEN /\ sw_pc' = "raised"
            /\ UNCHANGED <<sw_i, sw_j, sw_rep, sw_accum, sw_rows>>
       ELSE /\ sw_rows' = Append(sw_rows,
                             [cell |-> SweepCell,
                              input_length |-> SweepInputLength,
                              num_correct |-> SweepNumCorrect,
                              n_substr |-> sw_results.n_substr,
                              n_qubits |-> sw_results.n_qubits,
                              optimal_iterations |-> [num |-> sw_accum, den |-> sw_repeats],
                              results_cell |-> sw_results.cell])
            /\ sw_rep' = 0
            /\ sw_accum' = 0
            /\ IF sw_j < Len(sw_num_correct_list)
               THEN sw_j' = sw_j + 1 /\ UNCHANGED <<sw_i, sw_pc>>
               ELSE IF sw_i < Len(sw_target_n_qubits)
               THEN sw_i' = sw_i + 1 /\ sw_j' = 1 /\ UNCHANGED sw_pc
               ELSE sw_pc' = "done" /\ UNCHANGED <<sw_i, sw_j>>
    /\ UNCHANGED <<sw_target_n_qubits, sw_num_correct_list, sw_repeats, sw_results,
                   hvars, pvars, cvars, rvars>>

NextSweep == SkipRepeat \/ RunRepeat \/ RunRepeatRaises \/ WriteRow
SpecSweep == InitSweep /\ [][NextSweep]_vars

(***************************************************************************)
(* Properties of the circuits.                                             *)
(***************************************************************************)
Finished(calls) == c_todo = <<>> /\ c_done = calls

\* st with the sign of every basis state satisfying Marked inverted.
WithSignFlips(st, Marked(_)) ==
    [amp |-> [b \in DOMAIN st.amp |-> IF Marked(b) THEN -st.amp[b] ELSE st.amp[b]],
     k |-> st.k]

\* A basis state of the state before the sequence (its index register
\* is a basis state, so all of them agree on the index qubits).
BeforeBasis == CHOOSE b \in DOMAIN q_before.amp : TRUE

\* The array position load_array addresses on index qubits b: qubit k
\* carries character k of the position's binary form.
PositionOf(b) == IntOfBits([j \in 1..c_idx |-> b[j - 1]])
LoadedValue(b) ==
    IF PositionOf(b) < Len(c_array) THEN c_array[PositionOf(b) + 1]
    ELSE [j \in 1..c_val |-> 0]
ValueIsTarget(b) == InList(LoadedValue(b), c_targets)

\* C1: after load_array; mark_if_value_is_target; unload_array the value
\* register is all-zero, the index register and the phase ancilla are as
\* before the sequence, and the only change is a sign flip of exactly the
\* index states whose loaded value equals some target digest.
C1_MarkSequenceIsPhaseFlip ==
    Finished(<<"phase", "load", "mark", "unload">>) =>
        q = WithSignFlips(q_before, ValueIsTarget)

\* The basis state a bit-string labels: its last character is qubit 0.
Labelled(bitstring) == [j \in 0..(Len(bitstring) - 1) |-> bitstring[Len(bitstring) - j]]
IsListed(b) == \E j \in 1..Len(c_valid_states) : Labelled(c_valid_states[j]) = b

\* C2: the circuit of create_hashed_oracle maps each basis state of the
\* index register to itself, with its sign inverted if and only if it is
\* one of the listed bit-strings, whatever the list's order or repetitions.
C2_OracleFlipsExactlyListed ==
    Finished(<<"oracle">>) => q = WithSignFlips(q_before, IsListed)

\* The multi-controlled gates of a gate list in order, and the X gates
\* before, between and after them as bags (qubit -> number of X gates):
\* equal for two lists that differ only in the order of adjacent X gates.
RECURSIVE UpToXOrder(_, _, _, _)
UpToXOrder(gates, j, bag, acc) ==
    IF j > Len(gates) THEN [mcx |-> acc.mcx, x |-> Append(acc.x, bag)]
    ELSE IF gates[j].op = "x"
    THEN UpToXOrder(gates, j + 1, [bag EXCEPT ![gates[j].t] = @ + 1], acc)
    ELSE UpToXOrder(gates, j + 1, [t \in DOMAIN bag |-> 0],
                    [mcx |-> Append(acc.mcx, gates[j]), x |-> Append(acc.x, bag)])
Canonical(gates) ==
    UpToXOrder(gates, 1, [t \in 0..(c_idx + c_val) |-> 0], [mcx |-> <<>>, x |-> <<>>])

ValueRegisterZero(st) ==
    \A b \in DOMAIN st.amp : \A j \in c_idx..(c_idx + c_val - 1) : b[j] = 0

\* C3 as stated: load_array then unload_array leaves the value register
\* all-zero and the index register unchanged, and unload_array emits
\* exactly the gate sequence of load_array in reverse order.
C3_UnloadIsExactReverse ==
    Finished(<<"load", "unload">>) =>
        /\ ValueRegisterZero(q)
        /\ q = q_before
        /\ qc[2] = Reverse(qc[1])

\* C3 as amended: load_array then unload_array leaves the value register
\* all-zero and the index register unchanged, and unload_array emits the
\* gates of load_array in reverse order up to the order of adjacent X
\* gates: the multi-controlled X gates in exactly the reverse order, with
\* the same X gates between them.
C3_UnloadIsReverseUpToXOrder ==
    Finished(<<"load", "unload">>) =>
        /\ ValueRegisterZero(q)
        /\ q = q_before
        /\ Canonical(qc[2]) = Canonical(Reverse(qc[1]))

\* A non-zero value was loaded from the addressed position and unloaded
\* again, by a gate list that is not the literal reverse.
C3_Witness ==
    /\ Finished(<<"load", "unload">>)
    /\ PositionOf(BeforeBasis) < Len(c_array)
    /\ \E j \in 1..c_val : LoadedValue(BeforeBasis)[j] = 1
    /\ Len(c_array) >= 2
    /\ qc[2] # Reverse(qc[1])

(***************************************************************************)
(* Properties of make_hash.                                                *)
(***************************************************************************)
\* The digest by modular arithmetic alone: Horner's rule modulo 2^n_bits
\* over the UTF-8 bytes, then the product with the table prime.
RECURSIVE BytesMod(_, _)
BytesMod(b, m) ==
    IF Len(b) = 0 THEN 0
    ELSE (256 * BytesMod(SubSeq(b, 1, Len(b) - 1), m) + b[Len(b)]) % m

ExpectedDigest(s, n_bits, p_index) ==
    (BytesMod(Utf8Encode(s), 2^n_bits) * primes[p_index]) % (2^n_bits)

\* C10: for every substring, every hash_bits >= 1 and every prime_index in
\* 1..9, make_hash returns (big-endian integer of the UTF-8 bytes times the
\* prime_index-th table prime) mod 2^hash_bits, a value in [0, 2^hash_bits),
\* and returns the same value on every call with the same arguments.
C10_MakeHashValueRangeDeterminism ==
    \A k \in 1..Len(h_results) :
        /\ h_results[k].exc = "none"
        /\ h_results[k].val = ExpectedDigest(h_substring, h_hash_bits, h_prime_index)
        /\ h_results[k].val >= 0
        /\ h_results[k].val < 2^h_hash_bits
        /\ h_results[k] = h_results[1]

\* Two calls were made on a substring of several bytes whose product with
\* the prime exceeds the digest width.
C10_Witness ==
    /\ Len(h_results) = MaxCalls
    /\ Len(Utf8Encode(h_substring)) >= 2
    /\ h_hash_bits = MaxHashBits
    /\ h_results[1].val > 255

\* The last byte of the UTF-8 encoding of s; the empty string has no byte
\* and its integer is 0.
FinalByte(s) ==
    LET b == Utf8Encode(s) IN IF Len(b) = 0 THEN 0 ELSE b[Len(b)]

AgreeModulo(a, b, n_bits) ==
    BytesMod(Utf8Encode(a), 2^n_bits) = BytesMod(Utf8Encode(b), 2^n_bits)

\* C19: for all strings a and b and every hash_bits >= 1, compare_hash
\* returns the same answer for every prime index in 1..9; the answer is
\* TRUE exactly when the big-endian integers of the two byte strings agree
\* modulo 2^hash_bits, and for hash_bits <= 8 it is decided by the final
\* byte of each string alone.
C19_CompareHashIgnoresPrime ==
    \A k \in 1..Len(h_results) :
        /\ h_results[k].exc = "none"
        /\ h_results[k] = h_results[1]
        /\ h_results[k].val = AgreeModulo(h_substring, h_target, h_hash_bits)
        /\ h_hash_bits <= 8 =>
               h_results[k].val = (FinalByte(h_substring) % 2^h_hash_bits
                                     = FinalByte(h_target) % 2^h_hash_bits)

\* All nine prime indices were used on two strings of different lengths
\* and different final bytes that collide at 4 bits.
C19_Witness ==
    /\ Len(h_results) = Len(primes)
    /\ Len(h_substring) # Len(h_target)
    /\ Len(h_substring) > 0 /\ Len(h_target) > 0
    /\ FinalByte(h_substring) # FinalByte(h_target)
    /\ h_hash_bits = 4
    /\ h_results[Len(primes)].val

(***************************************************************************)
(* Properties of classical_preprocessing.                                  *)
(***************************************************************************)
Returned == pre_pc = "returned"

\* The window at position i and its digest, by definition.
WindowAt(i) == SubSeq(input_text, i + 1, i + Len(search_values[1]))
DigestOf(s) == ExpectedDigest(s, hash_bits, prime_index)
MatchesSomeTarget(i) ==
    \E t \in 1..Len(search_values) : DigestOf(WindowAt(i)) = DigestOf(search_values[t])
MatchingPositions == {i \in 0..(pre_out.n_substr - 1) : MatchesSomeTarget(i)}

\* C6: the length of valid_states equals the number of window positions
\* whose digest equals the digest of at least one target, each position
\* counted once.
C6_ValidStatesCountsEachPositionOnce ==
    Returned => Len(pre_out.valid_states) = Cardinality(MatchingPositions)

\* The digests of the positions listed in valid_states, in position order.
RECURSIVE DigestsOfListed(_)
DigestsOfListed(i) ==
    IF i >= pre_out.n_substr THEN <<>>
    ELSE (IF InList(FormatBin(i, pre_out.n_qubits), pre_out.valid_states)
          THEN <<pre_out.substrings[i + 1]>> ELSE <<>>) \o DigestsOfListed(i + 1)

\* C7: a window's digest is appended to the returned targets list exactly
\* when its position is appended to valid_states, also for a window that
\* only collides with a target.
C7_TargetsListedIffValid ==
    Returned => pre_out.targets = DigestsOfListed(0)

\* The least k with 2^k >= n.
IsCeilLog2(k, n) == 2^k >= n /\ (k = 0 \/ 2^(k - 1) < n)
DeadStates == (2^pre_out.n_qubits) - pre_out.n_substr

\* C8: every bit-string of valid_states encodes an index in [0, n_substr),
\* with n_substr = len(text) - len(targets[0]) + 1 and n_qubits =
\* ceil(log2(n_substr)); no leftover index state (none for n_substr = 8,
\* seven for n_substr = 9) appears in valid_states.
C8_ValidStatesAreLiveIndices ==
    Returned =>
        /\ pre_out.n_substr = Len(input_text) - Len(search_values[1]) + 1
        /\ IsCeilLog2(pre_out.n_qubits, pre_out.n_substr)
        /\ \A k \in 1..Len(pre_out.valid_states) :
              /\ IntOfBits(pre_out.valid_states[k]) >= 0
              /\ IntOfBits(pre_out.valid_states[k]) < pre_out.n_substr
        /\ (pre_out.n_substr = 8 => DeadStates = 0)
        /\ (pre_out.n_substr = 9 => DeadStates = 7)

\* Nine windows, seven dead index states, and the last window is listed.
C8_Witness ==
    /\ Returned
    /\ pre_out.n_substr = 9
    /\ DeadStates = 7
    /\ InList(FormatBin(8, 4), pre_out.valid_states)

\* C9: every index bit-string of valid_states has length n_qubits =
\* ceil(log2(n_substr)) and every digest bit-string of substrings has
\* length hash_bits, for every n_substr >= 1.
C9_BitStringWidths ==
    Returned =>
        /\ \A k \in 1..Len(pre_out.valid_states) :
              Len(pre_out.valid_states[k]) = pre_out.n_qubits
        /\ \A k \in 1..Len(pre_out.substrings) :
              Len(pre_out.substrings[k]) = hash_bits

(***************************************************************************)
(* Properties of run_full_search.                                          *)
(***************************************************************************)
CanonicalStages ==
    <<"PREPROCESS", "COUNT", "DERIVE_ITERATIONS", "SEARCH", "VALIDATE", "SUMMARIZE">>
IsPrefix(s, t) == Len(s) <= Len(t) /\ \A k \in 1..Len(s) : s[k] = t[k]
HasRun(stage) == InList(stage, run_stages)
\* The counting run has completed and its estimate is there.
EstimateAvailable ==
    /\ HasRun("COUNT")
    /\ estimate.exc = "none"
    /\ estimate = estimate_marked_state_count(counts_count, p_count, pre_out.n_substr)

\* C4: the stages an invocation of run_full_search has run are, at every
\* moment, an initial part of PREPROCESS, COUNT, DERIVE_ITERATIONS, SEARCH,
\* VALIDATE, SUMMARIZE (so each runs at most once, in that order, with no
\* step back), the stage about to run is the next of that list, an
\* invocation that returns has run all six, and whenever the iteration
\* count has been derived or the search circuit built or run, the counting
\* run has completed and its estimate is available.
C4_StagesRunInOrder ==
    /\ IsPrefix(run_stages, CanonicalStages)
    /\ InList(run_pc, CanonicalStages) =>
          /\ Len(run_stages) < Len(CanonicalStages)
          /\ run_pc = CanonicalStages[Len(run_stages) + 1]
    /\ run_pc = "returned" => run_stages = CanonicalStages
    /\ (HasRun("DERIVE_ITERATIONS") \/ HasRun("SEARCH") \/ qc_search # <<>>
          \/ counts_search # <<>>)
          => EstimateAvailable

\* An invocation that ran all six stages with a Grover iteration in its
\* search circuit.
C4_Witness ==
    /\ run_pc = "returned"
    /\ run_stages = CanonicalStages
    /\ optimal_iterations > 0

\* k = round((pi / 4) * sqrt(n_substr / M_est)) for M_est >= 1e-6: k - 1/2
\* <= x < k + 1/2 for x^2 = pi^2 * n_substr / (16 * M_est).
IsRoundedQuarterPiSqrt(k, n_substr, M_est) ==
    /\ k >= 0
    /\ k > 0 => 4 * (2 * k - 1) * (2 * k - 1) * M_est <= PiSqMicro * n_substr
    /\ PiSqMicro * n_substr < 4 * (2 * k + 1) * (2 * k + 1) * M_est

\* The calls that built a circuit with k Grover iterations.
CallsOfIterations(k) ==
    <<"init">>
    \o [j \in 1..(4 * k) |-> <<"load", "mark", "unload", "diffuser">>[((j - 1) % 4) + 1]]
    \o <<"measure">>
CallsOf(circuit) == [j \in 1..Len(circuit) |-> circuit[j].call]

\* Every gate of the part is an h or x on one qubit, or a measurement.
\* After the gates that precede the measurement, every index value has the
\* same probability.
AllZero(n_total) == BasisState([j \in 0..(n_total - 1) |-> 0])
UniformOverIndex(gates, n_idx, n_total) ==
    LET st == RunGates(AllZero(n_total), gates)
        weight(v) ==
            SeqSum([j \in 1..2^(n_total - n_idx) |->
                      LET rest == FormatBin(j - 1, n_total - n_idx)
                          b == [i \in 0..(n_total - 1) |->
                                  IF i < n_idx THEN v[i] ELSE rest[i - n_idx + 1]]
                      IN  IF b \in DOMAIN st.amp THEN st.amp[b] * st.amp[b] ELSE 0])
    IN  \A v \in [0..(n_idx - 1) -> {0, 1}] :
            weight(v) * 2^n_idx = 2^st.k

\* C5: once the iteration count is derived it is 0 if M_est < 1e-6 and
\* round((pi / 4) * sqrt(n_substr / M_est)) otherwise; the search circuit
\* is built with exactly that many Grover iterations; and after an
\* estimate below 1e-6 neither the derivation nor the search raises, and
\* the search circuit is the preparation of the uniform superposition
\* followed by the measurement of the index register, with nothing between.
C5_IterationsFollowEstimate ==
    /\ HasRun("DERIVE_ITERATIONS") =>
          IF estimate.M_est < 1 THEN optimal_iterations = 0
          ELSE IsRoundedQuarterPiSqrt(optimal_iterations, pre_out.n_substr, estimate.M_est)
    /\ HasRun("SEARCH") => CallsOf(qc_search) = CallsOfIterations(optimal_iterations)
    /\ (HasRun("COUNT") /\ estimate.exc = "none" /\ estimate.M_est < 1) =>
          /\ run_pc = "raised" =>
                run_stages[Len(run_stages)] \notin {"DERIVE_ITERATIONS", "SEARCH"}
          /\ HasRun("SEARCH") =>
                /\ CallsOf(qc_search) = <<"init", "measure">>
                /\ UniformOverIndex(qc_search[1].gates, pre_out.n_qubits,
                                    pre_out.n_qubits + hash_bits + 1)
                /\ qc_search[2].gates =
                      [k \in 1..pre_out.n_qubits |->
                         [op |-> "measure", c |-> <<k - 1>>, t |-> k - 1]]

\* An invocation whose estimate was zero and that returned, its search
\* circuit having no Grover iteration.
C5_Witness ==
    /\ run_pc = "returned"
    /\ estimate.M_est < 1
    /\ optimal_iterations = 0
    /\ Len(qc_search) = 2

\* The integer a bit-string denotes, first character most significant.
BinaryValue(bs) == SeqSum([k \in 1..Len(bs) |-> bs[k] * 2^(Len(bs) - k)])
LastStage == run_stages[Len(run_stages)]
\* COUNT has just completed without raising.
AfterCount == run_pc = "DERIVE_ITERATIONS"

DenotesValidIndex(outcome) ==
    \E j \in 1..Len(pre_out.valid_states) :
        BinaryValue(Reverse(outcome)) = BinaryValue(pre_out.valid_states[j])

\* C12: after VALIDATE, valid_shots is the number of shots whose outcome,
\* bit-reversed, has the value of some entry of valid_states; total_shots
\* is the number of shots; valid_fraction is their quotient and lies in
\* [0, 1]; on an empty search histogram it is 1 and VALIDATE has not
\* raised.
C12_ValidFraction ==
    HasRun("VALIDATE") =>
      LET f == validation.valid_fraction
      IN  /\ validation.valid_shots =
                SeqSum([j \in 1..Len(counts_search) |->
                          IF DenotesValidIndex(counts_search[j].outcome)
                          THEN counts_search[j].count ELSE 0])
          /\ validation.total_shots =
                SeqSum([j \in 1..Len(counts_search) |-> counts_search[j].count])
          /\ f.den > 0 /\ 0 <= f.num /\ f.num <= f.den
          /\ counts_search # <<>> =>
                f.num * validation.total_shots = validation.valid_shots * f.den
          /\ counts_search = <<>> => f.num = f.den
          /\ ~(run_pc = "raised" /\ LastStage = "VALIDATE")

\* A search histogram with a valid and an invalid outcome, the valid one
\* no palindrome.
C12_Witness ==
    /\ HasRun("VALIDATE")
    /\ validation.valid_shots > 0
    /\ validation.valid_shots < validation.total_shots
    /\ \E j \in 1..Len(counts_search) :
          /\ DenotesValidIndex(counts_search[j].outcome)
          /\ counts_search[j].outcome # Reverse(counts_search[j].outcome)

\* C15: no invocation ends with an exception raised by a numeric
\* derivation, that is in COUNT (the estimate), DERIVE_ITERATIONS or
\* SUMMARIZE (expected_theta, the error metrics, the statistics).
C15_NoNumericExceptionEscapes ==
    ~(run_pc = "raised"
      /\ LastStage \in {"COUNT", "DERIVE_ITERATIONS", "SUMMARIZE"})

(***************************************************************************)
(* Properties of get_prime.                                                *)
(***************************************************************************)
\* C13: every call of get_prime with an index in 1..9 returns that entry
\* of the table, and every call with any other index raises IndexError
\* and returns no prime.
C13_GetPrimeRejectsOutOfRange ==
    \A k \in 1..Len(h_results) :
        IF h_prime_index \in 1..9
        THEN h_results[k] = [exc |-> "none", val |-> primes[h_prime_index]]
        ELSE h_results[k].exc = "IndexError"

(***************************************************************************)
(* Properties of classical_preprocessing on targets of differing lengths.  *)
(***************************************************************************)
LengthsDiffer == \E j \in 1..Len(search_values) : Len(search_values[j]) # Len(search_values[1])

\* C14: a call of classical_preprocessing whose targets do not all have
\* the same length raises, having hashed no window, and returns no result.
C14_MixedLengthsRejected ==
    (pre_pc # "call" /\ LengthsDiffer) =>
        /\ pre_pc = "raised"
        /\ pre_out.exc # "none"
        /\ pre_out.substrings = <<>>

(***************************************************************************)
(* Properties of load_array on one index state.                            *)
(***************************************************************************)
\* The basis state c with the bit-string v in the value register, the last
\* character of v on the register's first qubit.
WithValue(c, v) ==
    [j \in DOMAIN c |->
        IF j >= c_idx /\ j < c_idx + c_val THEN v[c_val - (j - c_idx)] ELSE c[j]]
\* The state before the sequence with the value LoadedValue in the value
\* register of every basis state.
Loaded ==
    [amp |-> [c \in {WithValue(b, LoadedValue(b)) : b \in DOMAIN q_before.amp} |->
                LET b == CHOOSE b \in DOMAIN q_before.amp : WithValue(b, LoadedValue(b)) = c
                IN  q_before.amp[b]],
     k |-> q_before.k]
Leftover == PositionOf(BeforeBasis) >= Len(c_array)
AllZeroValue == [j \in 1..c_val |-> 0]

\* C16: after load_array on the index state of position i, the index
\* register and the phase ancilla are unchanged and the value register
\* holds array[i] if i < len(array) and zeros otherwise; and
\* mark_if_value_is_target leaves the state of a leftover position as it
\* is unless some target digest is all zeros.
C16_LoadArrayLeavesLeftoverZero ==
    /\ c_done = <<"phase", "load">> => q = Loaded
    /\ (c_done = <<"phase", "load", "mark">> /\ Leftover
          /\ ~InList(AllZeroValue, c_targets)) => q = Loaded

\* A leftover position marked against targets none of which is zero.
C16_Witness ==
    /\ c_done = <<"phase", "load", "mark">>
    /\ Leftover
    /\ Len(c_targets) > 0
    /\ ~InList(AllZeroValue, c_targets)
    /\ \A b \in DOMAIN q.amp : \A j \in c_idx..(c_idx + c_val - 1) : b[j] = 0

(***************************************************************************)
(* Properties of the Grover operator.                                      *)
(***************************************************************************)
Distinct(lst) == \A i, j \in 1..Len(lst) : lst[i] = lst[j] => i = j

\* C17: the operator of grover_operator takes every state to the state
\* that one pass of the search loop (the oracle, then the diffuser) takes
\* it to, for every list of distinct valid states.
C17_GroverOperatorIsSearchIteration ==
    (Finished(<<"grover_operator">>) /\ Distinct(c_valid_states)) =>
        q = RunGates(q_before,
                     create_hashed_oracle(c_idx, c_valid_states) \o diffuser(QregIdx))

(***************************************************************************)
(* Properties of AHQuHSSA.run_tests.                                       *)
(***************************************************************************)
\* C18: every row written was built from a `results` record that a search
\* run of the row's own cell produced, so its n_substr and n_qubits are
\* those of the cell's text.
C18_RowReadsOwnCell ==
    \A k \in 1..Len(sw_rows) :
        /\ sw_rows[k].results_cell = sw_rows[k].cell
        /\ sw_rows[k].n_substr = sw_rows[k].input_length - SweepTargetLen + 1

(***************************************************************************)
(* Properties of the index bit order.                                      *)
(***************************************************************************)
\* The get_counts string of a measured index basis state: qubit j is
\* measured into classical bit j, and the string shows the highest
\* classical bit first.
OutcomeOf(b, n) == [k \in 1..n |-> b[n - k]]
CountedValid(outcome) == validate(c_valid_states, <<Item(outcome, 1)>>).valid_shots = 1
SignInverted ==
    /\ BeforeBasis \in DOMAIN q.amp
    /\ q.amp[BeforeBasis] = -q_before.amp[BeforeBasis]

\* C20: create_hashed_oracle places an index on the index qubits in the
\* bit order VALIDATE's reversed conversion assumes: the outcome measured
\* from a basis state is counted valid if and only if the oracle marks
\* that basis state, for every list of distinct valid states.
C20_ValidateMatchesDirectOracle ==
    (Finished(<<"oracle">>) /\ Distinct(c_valid_states)) =>
        (SignInverted <=> CountedValid(OutcomeOf(BeforeBasis, c_idx)))

====
